---- MODULE Spec2Model ----
(***************************************************************************)
(* Premium grid engine of premiums-ui: the Page component                  *)
(* (src/unnamed/part_001).  React state rows/query/sortKey/sortDir, the    *)
(* two memoised derivations filteredSorted and netTotalsByDelta, the fetch *)
(* effect and the auto-scroll effect.                                      *)
(*                                                                         *)
(* JavaScript values are tagged records, strings are sequences of          *)
(* one-character strings so that trim / toLowerCase / includes / "<" are   *)
(* computed, numbers are integers.                                         *)
(***************************************************************************)
EXTENDS Integers, Sequences, FiniteSets, TLC

VARIABLES
    rows,               \* useState<PremiumRow[]>([])            (line 52)
    query,              \* useState("")                          (line 53)
    sortKey,            \* useState<string>("symbol")            (line 54)
    sortDir,            \* useState<"asc" | "desc">("asc")       (line 55)
    filteredSorted,     \* value of the useMemo of lines 79-95 at the last commit
    netTotalsByDelta,   \* value of the useMemo of lines 106-117 at the last commit
    sortedInPlace,      \* TRUE iff the array handed to .sort() was the rows array itself
    alive,              \* "constructed" | "mounted" | "unmounted" | "crashed"
    fetchState,         \* "idle" | "pending" | "settled"
    fetchCount,         \* number of fetch("/api/premiums") calls issued
    response,           \* what the fetch settled with
    rafPending,         \* requestAnimationFrame callbacks scheduled, not yet run
    scrollCount,        \* el.scrollTo calls performed
    lastOp              \* the last handler that ran, if it was toggleSort: its call

vars == <<rows, query, sortKey, sortDir, filteredSorted, netTotalsByDelta,
          sortedInPlace, alive, fetchState, fetchCount, response, rafPending,
          scrollCount, lastOp>>

\* ------------------------------------------------------------------ bounds
MaxRows == 2

\* ------------------------------------------------------- JavaScript values
Num(n) == [t |-> "num", n |-> n, s |-> <<>>]
Str(s) == [t |-> "str", n |-> 0, s |-> s]
Null == [t |-> "null", n |-> 0, s |-> <<>>]
Undefined == [t |-> "undefined", n |-> 0, s |-> <<>>]
NaN == [t |-> "nan", n |-> 0, s |-> <<>>]

\* UTF-16 code units of the characters that occur
CharCode(c) ==
    CASE c = " " -> 32
      [] c = "0" -> 48 [] c = "1" -> 49 [] c = "2" -> 50 [] c = "3" -> 51
      [] c = "4" -> 52 [] c = "5" -> 53 [] c = "6" -> 54 [] c = "7" -> 55
      [] c = "8" -> 56 [] c = "9" -> 57
      [] c = "A" -> 65 [] c = "B" -> 66
      [] c = "a" -> 97 [] c = "b" -> 98 [] c = "d" -> 100 [] c = "e" -> 101
      [] c = "f" -> 102 [] c = "i" -> 105 [] c = "n" -> 110 [] c = "u" -> 117

Digits == {"0", "1", "2", "3", "4", "5", "6", "7", "8", "9"}

\* String.prototype.toLowerCase, per character
LowerChar(c) == IF c = "A" THEN "a" ELSE IF c = "B" THEN "b" ELSE c

ToLowerCase(s) == [i \in 1..Len(s) |-> LowerChar(s[i])]

\* String.prototype.trim
RECURSIVE TrimStart(_)
TrimStart(s) == IF s # <<>> /\ Head(s) = " " THEN TrimStart(Tail(s)) ELSE s

RECURSIVE TrimEnd(_)
TrimEnd(s) ==
    IF s # <<>> /\ s[Len(s)] = " " THEN TrimEnd(SubSeq(s, 1, Len(s) - 1)) ELSE s

Trim(s) == TrimEnd(TrimStart(s))

\* String.prototype.includes
Includes(s, q) ==
    \E off \in 0..(Len(s) - Len(q)) : SubSeq(s, off + 1, off + Len(q)) = q

\* value of a string of decimal digits
RECURSIVE DigitsValue(_)
DigitsValue(s) ==
    IF s = <<>> THEN 0
    ELSE 10 * DigitsValue(SubSeq(s, 1, Len(s) - 1)) + (CharCode(s[Len(s)]) - 48)

\* decimal digits of a non-negative integer (String(n))
RECURSIVE NatToString(_)
NatToString(n) ==
    LET d == CHOOSE c \in Digits : CharCode(c) - 48 = n % 10
    IN  IF n < 10 THEN <<d>> ELSE Append(NatToString(n \div 10), d)

\* Number(v): null -> 0, undefined -> NaN, "" and blank -> 0, digits -> their
\* value, any other string -> NaN   (lines 86-87, 112)
Number(v) ==
    CASE v.t = "num" -> v
      [] v.t = "null" -> Num(0)
      [] v.t = "str" ->
            LET s == Trim(v.s)
            IN  IF \A i \in 1..Len(s) : s[i] \in Digits
                THEN Num(DigitsValue(s)) ELSE NaN
      [] OTHER -> NaN

\* String(v)   (lines 88-89)
String(v) ==
    CASE v.t = "str" -> v
      [] v.t = "num" -> Str(NatToString(v.n))
      [] v.t = "null" -> Str(<<"n", "u", "l", "l">>)
      [] OTHER -> Str(<<"u", "n", "d", "e", "f", "i", "n", "e", "d">>)

\* lexicographic order of two strings by code unit
RECURSIVE StrLess(_, _)
StrLess(a, b) ==
    IF b = <<>> THEN FALSE
    ELSE IF a = <<>> THEN TRUE
    ELSE IF CharCode(Head(a)) # CharCode(Head(b))
         THEN CharCode(Head(a)) < CharCode(Head(b))
    ELSE StrLess(Tail(a), Tail(b))

\* the JavaScript "<" on two values that are each a number or a string: two
\* strings compare by code unit, otherwise both sides go through Number() and
\* a NaN side makes the comparison false
JsLess(x, y) ==
    IF x.t = "str" /\ y.t = "str" THEN StrLess(x.s, y.s)
    ELSE LET nx == Number(x)
             ny == Number(y)
         IN  nx.t = "num" /\ ny.t = "num" /\ nx.n < ny.n

\* ------------------------------------------------------------------ schema
NumDeltas == 10
DeltaStep == 5

\* DELTAS = Array.from({ length: 10 }, (_, i) => (i + 1) * 0.05), in hundredths
DELTAS == [i \in 1..NumDeltas |-> i * DeltaStep]

DigitChar == <<"0", "1", "2", "3", "4", "5", "6", "7", "8", "9">>

\* d.toFixed(2) for a delta d given in hundredths, 0 <= d < 100
ToFixed2(h) == "0." \o DigitChar[(h \div 10) + 1] \o DigitChar[(h % 10) + 1]

\* the key of the totals record of each delta step   (lines 108, 113)
TotalsKey == [i \in 1..NumDeltas |-> ToFixed2(DELTAS[i])]

\* `${d.toFixed(2)}N`   (line 111)
NetKey == [i \in 1..NumDeltas |-> ToFixed2(DELTAS[i]) \o "N"]

\* the headers with an onClick that calls toggleSort   (lines 151, 158, 165)
SortableKeys == {"symbol", "UnderlyingPrice", "Shares"}

\* -------------------------------------------------------------------- rows
\* The elements the endpoint may put in the array.  An array holds references
\* to them; the objects themselves are never written.
RowIds == {"AAA", "BBB", "NoSymbol", "NumSymbol", "null"}

IsNullRow(r) == r = "null"

SymAAA == <<"A", "A", "A">>
SymBBB == <<"B", "B", "B">>

\* the own properties of each element
Fields ==
    [r \in RowIds |->
        CASE r = "AAA" ->
                "symbol" :> Str(SymAAA) @@ "UnderlyingPrice" :> Num(7)
                @@ "Shares" :> Num(2) @@ "0.15N" :> Num(10) @@ "0.05N" :> Str(<<"3">>)
          [] r = "BBB" ->
                "symbol" :> Str(SymBBB) @@ "UnderlyingPrice" :> Str(<<"1", "2">>)
                @@ "Shares" :> Str(<<"a", "b">>) @@ "0.15N" :> Num(25)
                @@ "0.50N" :> Str(<<"a", "b">>)
          [] r = "NoSymbol" ->       \* symbol missing, a null net field
                "UnderlyingPrice" :> Num(7) @@ "Shares" :> Num(1)
                @@ "0.15N" :> Null @@ "0.10N" :> Num(4)
          [] r = "NumSymbol" ->      \* symbol present and not a string
                "symbol" :> Num(5) @@ "Shares" :> Num(2) @@ "0.15N" :> Num(1)
          [] OTHER -> [k \in {} |-> Null]]

\* r[k] on an object: a missing property reads as undefined
Get(r, k) == IF k \in DOMAIN Fields[r] THEN Fields[r][k] ELSE Undefined

SeqsUpTo(S, n) == UNION {[1..m -> S] : m \in 0..n}

\* what r.json() may resolve to as an array
RowArrays == SeqsUpTo(RowIds, MaxRows)

\* what e.target.value may be: empty, blank, matching in either case, padded,
\* matching the other row, matching nothing
Queries ==
    {<<>>, <<" ">>, <<"a">>, <<"A">>, <<"a", "a", "a">>, <<" ", "a", " ">>,
     <<"b", "b">>, <<"a", "b">>}

\* how the fetch chain of lines 60-63 may settle: r.json() resolves to an
\* array, resolves to something that is not an array (an object wrapping the
\* rows), or fetch / r.json() rejects
Responses ==
    [kind : {"array"}, data : RowArrays]
    \cup {[kind |-> "nonarray", data |-> <<"AAA">>],
          [kind |-> "neterror", data |-> <<>>],
          [kind |-> "parseerror", data |-> <<>>]}

NoResponse == [kind |-> "none", data |-> <<>>]

\* ----------------------------------------------------------- filter + sort
\* const q = query.trim().toLowerCase()   (line 80)
NormalizeQueryNoTrim(qry) == ToLowerCase(qry)

NormalizeQuery(qry) == ToLowerCase(Trim(qry))

\* r.symbol?.toLowerCase().includes(q)   (line 82): "throw" | "keep" | "drop"
SymbolMatch(r, q) ==
    IF IsNullRow(r) THEN "throw"
    ELSE LET sym == Get(r, "symbol")
         IN  CASE sym.t \in {"null", "undefined"} -> "drop"
               [] sym.t = "str" ->
                     IF Includes(ToLowerCase(sym.s), q) THEN "keep" ELSE "drop"
               [] OTHER -> "throw"

\* let out = rows; if (q) out = rows.filter(...)   (lines 81-82)
Filtered(rs, qry) ==
    LET q == NormalizeQuery(qry)
        keep(r) == SymbolMatch(r, q) = "keep"
    IN  IF q = <<>> THEN [threw |-> FALSE, out |-> rs]
        ELSE IF \E i \in 1..Len(rs) : SymbolMatch(rs[i], q) = "throw"
             THEN [threw |-> TRUE, out |-> <<>>]
        ELSE [threw |-> FALSE, out |-> SelectSeq(rs, keep)]

\* aComp / bComp   (lines 84-89)
CompValue(r, key) ==
    LET v == Get(r, key)
        n == Number(v)
    IN  IF n.t = "nan" THEN String(v) ELSE n

\* the comparator of lines 83-93, for two rows that are objects
Comparator(a, b, key, dir) ==
    LET aComp == CompValue(a, key)
        bComp == CompValue(b, key)
    IN  IF JsLess(aComp, bComp) THEN (IF dir = "asc" THEN -1 ELSE 1)
        ELSE IF JsLess(bComp, aComp) THEN (IF dir = "asc" THEN 1 ELSE -1)
        ELSE 0

\* the comparator's results, tabulated once
Compared ==
    [a \in RowIds \ {"null"}, b \in RowIds \ {"null"}, key \in SortableKeys,
     dir \in {"asc", "desc"} |-> Comparator(a, b, key, dir)]

Perms(n) == {p \in [1..n -> 1..n] : \A i, j \in 1..n : p[i] = p[j] => i = j}

\* whether the comparator is a consistent comparator for the elements of out
\* (ECMA-262, Array.prototype.sort)
ConsistentComparator(out, key, dir) ==
    LET I == 1..Len(out)
        cm == [i \in I, j \in I |-> Compared[out[i], out[j], key, dir]]
        c(i, j) == cm[i, j]
    IN  \A i, j, k \in I :
            /\ c(i, i) = 0
            /\ c(i, j) = 0 => c(j, i) = 0
            /\ (c(i, j) = 0 /\ c(j, k) = 0) => c(i, k) = 0
            /\ (c(i, j) < 0 /\ c(j, k) < 0) => c(i, k) < 0
            /\ (c(i, j) > 0 /\ c(j, k) > 0) => c(i, k) > 0

\* [...out].sort(comparator) for an array of objects: Array.prototype.sort is
\* stable, so a consistent comparator fixes the result; with an inconsistent
\* one the order is implementation-defined and any permutation may come out
SortOutcomes(out, key, dir) ==
    LET n == Len(out)
        cm == [i \in 1..n, j \in 1..n |-> Compared[out[i], out[j], key, dir]]
        c(i, j) == cm[i, j]
        apply(p) == [i \in 1..n |-> out[p[i]]]
        stable(p) ==
            \A i, j \in 1..n :
                i < j => \/ c(p[i], p[j]) < 0
                         \/ (c(p[i], p[j]) = 0 /\ p[i] < p[j])
    IN  IF ConsistentComparator(out, key, dir)
        THEN {apply(p) : p \in {pp \in Perms(n) : stable(pp)}}
        ELSE {apply(p) : p \in Perms(n)}

\* whether .sort() of line 83 is applied to the rows array itself: [...out]
\* is a fresh array whatever out is
SortsWithoutCopy(qry) == NormalizeQuery(qry) = <<>>

SortsRowsThemselves(qry) == FALSE

\* ------------------------------------------------------------------ totals
\* only values that already are numbers count
NetContributionNumbersOnly(r, i) ==
    LET raw == Get(r, NetKey[i]) IN IF raw.t = "num" THEN raw.n ELSE 0

\* Number(r[key] ?? 0), and zero when that is NaN   (lines 112-113)
NetContribution(r, i) ==
    LET raw == Get(r, NetKey[i])
        val == Number(IF raw.t \in {"null", "undefined"} THEN Num(0) ELSE raw)
    IN  IF val.t = "nan" THEN 0 ELSE val.n

\* the contributions, tabulated once
Contribution == [r \in RowIds, i \in 1..NumDeltas |-> NetContribution(r, i)]

RECURSIVE SumNet(_, _)
SumNet(fs, i) ==
    IF fs = <<>> THEN 0 ELSE Contribution[Head(fs), i] + SumNet(Tail(fs), i)

\* which array the totals loop of line 109 runs over
TotalsInputAllRows(rs, fs) == rs

TotalsInput(rs, fs) == fs

\* the body of the useMemo of lines 106-117, for an array of objects
DeltaOfKey ==
    [k \in {TotalsKey[i] : i \in 1..NumDeltas} |->
        CHOOSE i \in 1..NumDeltas : TotalsKey[i] = k]

NetTotals(fs) == [k \in DOMAIN DeltaOfKey |-> SumNet(fs, DeltaOfKey[k])]

\* --------------------------------------------------------------- rendering
HasNullRow(seq) == \E i \in 1..Len(seq) : IsNullRow(seq[i])

Thrown == [threw |-> TRUE, fs |-> <<>>, totals |-> NetTotals(<<>>), inPlace |-> FALSE]

\* one render of Page with the given state: the values the two useMemo
\* bodies can produce, or a TypeError.  On a null row the comparator
\* (a[sortKey], line 84), the totals loop (r[key], line 112) and the row
\* markup (r.symbol, line 229) each read a property of null.
RenderOutcomes(rs, qry, key, dir) ==
    LET f == Filtered(rs, qry)
    IN  IF f.threw \/ HasNullRow(f.out) THEN {Thrown}
        ELSE {[threw |-> FALSE, fs |-> s, totals |-> NetTotals(TotalsInput(rs, s)),
               inPlace |-> SortsRowsThemselves(qry)] :
                    s \in SortOutcomes(f.out, key, dir)}

\* the dependency of the auto-scroll effect: [rows.length]   (line 76)
ScrollDepVisible(rs, fs) == Len(fs)

ScrollDep(rs, fs) == Len(rs)

\* el.querySelector('th[data-delta="0.15"]') finds a header   (lines 70, 174)
ScrollTargetExists == \E i \in 1..NumDeltas : ToFixed2(DELTAS[i]) = "0.15"

\* the body of the auto-scroll effect: how many frames it requests (lines 68-75)
ScrollEffect(rs) ==
    IF Len(rs) = 0 THEN 0 ELSE IF ~ScrollTargetExists THEN 0 ELSE 1

\* React applies a state update only to a component that is still mounted
StateUpdateAlways(a) == TRUE

StateUpdateApplies(a) == a = "mounted"

\* setRows(Array.isArray(data) ? data : []) / .catch(() => setRows([]))
RowsFromResponseUnchecked(resp) == resp.data

RowsFromResponse(resp) == IF resp.kind = "array" THEN resp.data ELSE <<>>

\* toggleSort(key)   (lines 97-103): the sort spec it sets
ToggleSortKeepsDir(key, curKey, curDir) ==
    IF curKey = key
    THEN [key |-> curKey, dir |-> IF curDir = "asc" THEN "desc" ELSE "asc"]
    ELSE [key |-> key, dir |-> curDir]

ToggleSortState(key, curKey, curDir) ==
    IF curKey = key
    THEN [key |-> curKey, dir |-> IF curDir = "asc" THEN "desc" ELSE "asc"]
    ELSE [key |-> key, dir |-> "asc"]

\* what lastOp records: a toggleSort call with its argument and the sort spec
\* it started from, or any other handler
Toggled(key) == [op |-> "toggleSort", key |-> key, key0 |-> sortKey, dir0 |-> sortDir]
Other == [op |-> "other", key |-> "", key0 |-> "", dir0 |-> ""]

\* the re-render and commit that follow a state update: both memos are
\* recomputed, then the auto-scroll effect runs if its dependency changed.  A
\* render that throws commits nothing and takes the tree down.
Commit(rs, qry, key, dir) ==
    /\ query' = qry
    /\ sortKey' = key
    /\ sortDir' = dir
    /\ \E o \in RenderOutcomes(rs, qry, key, dir) :
          IF o.threw
          THEN /\ rows' = rs
               /\ alive' = "crashed"
               /\ UNCHANGED <<filteredSorted, netTotalsByDelta, sortedInPlace, rafPending>>
          ELSE /\ rows' = (IF o.inPlace THEN o.fs ELSE rs)
               /\ filteredSorted' = o.fs
               /\ netTotalsByDelta' = o.totals
               /\ sortedInPlace' = o.inPlace
               /\ alive' = alive
               /\ rafPending' =
                    IF ScrollDep(rows', o.fs) # ScrollDep(rows, filteredSorted)
                    THEN rafPending + ScrollEffect(rows') ELSE rafPending

\* ----------------------------------------------------------------- actions
Init ==
    /\ rows = <<>>
    /\ query = <<>>
    /\ sortKey = "symbol"
    /\ sortDir = "asc"
    /\ filteredSorted = <<>>
    /\ netTotalsByDelta = NetTotals(<<>>)
    /\ sortedInPlace = SortsRowsThemselves(<<>>)
    /\ alive = "constructed"
    /\ fetchState = "idle"
    /\ fetchCount = 0
    /\ response = NoResponse
    /\ rafPending = 0
    /\ scrollCount = 0
    /\ lastOp = Other

\* the effects of the first commit: the fetch is issued (lines 59-64); the
\* auto-scroll effect runs with rows.length = 0 and returns (line 69)
Mount ==
    /\ alive = "constructed"
    /\ alive' = "mounted"
    /\ fetchState' = "pending"
    /\ fetchCount' = fetchCount + 1
    /\ rafPending' = rafPending + ScrollEffect(rows)
    /\ lastOp' = Other
    /\ UNCHANGED <<rows, query, sortKey, sortDir, filteredSorted, netTotalsByDelta,
                   sortedInPlace, response, scrollCount>>

\* the fetch chain settles and calls setRows   (lines 61-63)
FetchSettle(resp) ==
    /\ fetchState = "pending"
    /\ fetchState' = "settled"
    /\ response' = resp
    /\ lastOp' = Other
    /\ UNCHANGED <<fetchCount, scrollCount>>
    /\ IF StateUpdateApplies(alive)
       THEN Commit(RowsFromResponse(resp), query, sortKey, sortDir)
       ELSE UNCHANGED <<rows, query, sortKey, sortDir, filteredSorted,
                        netTotalsByDelta, sortedInPlace, alive, rafPending>>

\* onChange={(e) => setQuery(e.target.value)}   (line 139)
SetQuery(q) ==
    /\ alive = "mounted"
    /\ q # query
    /\ lastOp' = Other
    /\ UNCHANGED <<fetchState, fetchCount, response, scrollCount>>
    /\ Commit(rows, q, sortKey, sortDir)

\* onClick={() => toggleSort(k)}   (lines 97-103, 151, 158, 165)
ToggleSort(k) ==
    /\ alive = "mounted"
    /\ lastOp' = Toggled(k)
    /\ UNCHANGED <<fetchState, fetchCount, response, scrollCount>>
    /\ LET new == ToggleSortState(k, sortKey, sortDir)
       IN  Commit(rows, query, new.key, new.dir)

\* the requestAnimationFrame callback: el.scrollTo   (lines 72-75)
RafFire ==
    /\ rafPending > 0
    /\ rafPending' = rafPending - 1
    /\ scrollCount' = scrollCount + 1
    /\ lastOp' = Other
    /\ UNCHANGED <<rows, query, sortKey, sortDir, filteredSorted, netTotalsByDelta,
                   sortedInPlace, alive, fetchState, fetchCount, response>>

\* the component is torn down; neither effect has a cleanup
Unmount ==
    /\ alive = "mounted"
    /\ alive' = "unmounted"
    /\ lastOp' = Other
    /\ UNCHANGED <<rows, query, sortKey, sortDir, filteredSorted, netTotalsByDelta,
                   sortedInPlace, fetchState, fetchCount, response, rafPending,
                   scrollCount>>

Next ==
    \/ Mount
    \/ \E resp \in Responses : FetchSettle(resp)
    \/ \E q \in Queries : SetQuery(q)
    \/ \E k \in SortableKeys : ToggleSort(k)
    \/ RafFire
    \/ Unmount

Spec == Init /\ [][Next]_vars

\* ------------------------------------------------------------------ claims
\* What the claims speak of, stated apart from the operators above.

\* the ten delta steps, "0.05" through "0.50"
StepKeys == <<"0.05", "0.10", "0.15", "0.20", "0.25", "0.30", "0.35", "0.40",
              "0.45", "0.50">>

\* a string contains another, letter case aside
ContainsNoCase(sym, q) ==
    \E off \in 0..(Len(sym) - Len(q)) :
        \A k \in 1..Len(q) : LowerChar(sym[off + k]) = LowerChar(q[k])

\* the query without its leading and trailing blanks
Trimmed(q) ==
    IF \A k \in 1..Len(q) : q[k] = " " THEN <<>>
    ELSE LET lo == CHOOSE a \in 1..Len(q) :
                        q[a] # " " /\ \A k \in 1..(a - 1) : q[k] = " "
             hi == CHOOSE b \in 1..Len(q) :
                        q[b] # " " /\ \A k \in (b + 1)..Len(q) : q[k] = " "
         IN  SubSeq(q, lo, hi)

\* row r has a string symbol that contains q, letter case aside
SymbolContains(r, q) ==
    /\ ~IsNullRow(r)
    /\ "symbol" \in DOMAIN Fields[r]
    /\ Fields[r]["symbol"].t = "str"
    /\ ContainsNoCase(Fields[r]["symbol"].s, q)

\* row r is wanted under query q
Wanted(r, q) == Trimmed(q) = <<>> \/ SymbolContains(r, Trimmed(q))

\* what a net field adds to a total: its number, the number a string of
\* digits spells, and zero for anything else or for no field at all
NetNumber(r, key) ==
    IF IsNullRow(r) \/ key \notin DOMAIN Fields[r] THEN 0
    ELSE LET v == Fields[r][key]
         IN  CASE v.t = "num" -> v.n
               [] v.t = "str" /\ v.s # <<>> /\ (\A k \in 1..Len(v.s) : v.s[k] \in Digits)
                     -> DigitsValue(v.s)
               [] OTHER -> 0

RECURSIVE NetSum(_, _, _)
NetSum(seq, key, q) ==
    IF seq = <<>> THEN 0
    ELSE (IF Wanted(Head(seq), q) THEN NetNumber(Head(seq), key) ELSE 0)
         + NetSum(Tail(seq), key, q)

Count(seq, r) == Cardinality({p \in 1..Len(seq) : seq[p] = r})

RECURSIVE IsSubSequence(_, _)
IsSubSequence(a, b) ==
    IF a = <<>> THEN TRUE
    ELSE IF b = <<>> THEN FALSE
    ELSE IF Head(a) = Head(b) THEN IsSubSequence(Tail(a), Tail(b))
    ELSE IsSubSequence(a, Tail(b))

AllSymbolsStrings(seq) ==
    \A p \in 1..Len(seq) :
        /\ ~IsNullRow(seq[p])
        /\ "symbol" \in DOMAIN Fields[seq[p]]
        /\ Fields[seq[p]]["symbol"].t = "str"

ComparedBy(r, K) ==
    LET v == IF K \in DOMAIN Fields[r] THEN Fields[r][K] ELSE Undefined
    IN  CASE v.t = "num" -> Num(v.n)
          [] v.t = "null" -> Num(0)
          [] v.t = "str" /\ (\A k \in 1..Len(v.s) : v.s[k] \in Digits)
                -> Num(DigitsValue(v.s))
          [] v.t = "str" -> Str(v.s)
          [] OTHER -> Str(<<"u", "n", "d", "e", "f", "i", "n", "e", "d">>)

\* C3: for any sort key K, sorting the visible rows ascending and sorting them
\* descending put every two rows with distinct comparison values in opposite
\* relative orders.
C3_AscDescOpposite ==
    LET f == Filtered(rows, query)
    IN  (~f.threw /\ ~HasNullRow(f.out)) =>
            \A K \in SortableKeys :
                \A A \in SortOutcomes(f.out, K, "asc") :
                    \A D \in SortOutcomes(f.out, K, "desc") :
                        \A p, q, pd, qd \in 1..Len(f.out) :
                            (/\ A[p] = D[pd]
                             /\ A[q] = D[qd]
                             /\ ComparedBy(A[p], K) # ComparedBy(A[q], K))
                            => ((p < q) <=> (qd < pd))

\* sorting by Shares where one row holds a number and the other a word
C3_Witness ==
    /\ alive = "mounted"
    /\ rows = <<"AAA", "BBB">>
    /\ sortKey = "Shares"
    /\ sortDir = "desc"
    /\ filteredSorted = <<"AAA", "BBB">>

Flipped(dir) == IF dir = "asc" THEN "desc" ELSE "asc"

\* C4: toggleSort on the active key flips the direction and keeps the key, so
\* a second call in a row on that key restores the direction the first call
\* started from; toggleSort on another key makes it the key and the direction
\* ascending, whatever the direction was.
C4_ToggleSort ==
    [][lastOp'.op = "toggleSort" =>
          LET k == lastOp'.key
          IN  /\ k = sortKey => (sortKey' = sortKey /\ sortDir' = Flipped(sortDir))
              /\ k # sortKey => (sortKey' = k /\ sortDir' = "asc")
              /\ (lastOp.op = "toggleSort" /\ lastOp.key = k /\ lastOp.key0 = k)
                    => (sortKey' = lastOp.key0 /\ sortDir' = lastOp.dir0)]_vars

\* a second click in a row on Shares, back from descending to ascending
C4_Witness ==
    /\ lastOp.op = "toggleSort"
    /\ lastOp.key = "Shares"
    /\ lastOp.key0 = "Shares"
    /\ lastOp.dir0 = "desc"
    /\ sortKey = "Shares"
    /\ sortDir = "asc"

RECURSIVE PlainSum(_, _)
PlainSum(seq, key) ==
    IF seq = <<>> THEN 0 ELSE NetNumber(Head(seq), key) + PlainSum(Tail(seq), key)

\* C5: the totals have exactly the 10 keys "0.05" .. "0.50", each holding the
\* sum over the visible rows of that step's net field as a number, a missing
\* field or one that is no number adding zero; with no visible row all are 0.
C5_TotalsShape ==
    /\ DOMAIN netTotalsByDelta = {StepKeys[i] : i \in 1..Len(StepKeys)}
    /\ Cardinality(DOMAIN netTotalsByDelta) = 10
    /\ \A i \in 1..Len(StepKeys) :
          netTotalsByDelta[StepKeys[i]] = PlainSum(filteredSorted, StepKeys[i] \o "N")
    /\ filteredSorted = <<>> =>
          \A i \in 1..Len(StepKeys) : netTotalsByDelta[StepKeys[i]] = 0

\* both rows visible: "3" counts as 3, "ab" and the missing fields as 0
C5_Witness ==
    /\ alive = "mounted"
    /\ filteredSorted = <<"AAA", "BBB">>
    /\ netTotalsByDelta["0.05"] = 3
    /\ netTotalsByDelta["0.15"] = 35
    /\ netTotalsByDelta["0.50"] = 0
    /\ netTotalsByDelta["0.20"] = 0

\* C6: a scroll is requested only in the step that takes `rows` from empty to
\* non-empty, and in that step exactly one is requested if the render commits;
\* no query edit or sort click requests or performs one; a scroll is performed
\* at most once and only with `rows` non-empty.
C6_AnchorScrollOnce ==
    [][/\ rafPending' > rafPending =>
            (Len(rows) = 0 /\ Len(rows') >= 1 /\ rafPending' = rafPending + 1)
       /\ (Len(rows) = 0 /\ Len(rows') >= 1 /\ alive' = "mounted") =>
            rafPending' = rafPending + 1
       /\ (query' # query \/ sortKey' # sortKey \/ sortDir' # sortDir) =>
            (rafPending' = rafPending /\ scrollCount' = scrollCount)
       /\ scrollCount' > scrollCount =>
            (Len(rows) >= 1 /\ scrollCount' = 1 /\ rafPending' = 0)]_vars

\* scrolled once, and the filter has since cut two rows down to one
C6_Witness ==
    /\ alive = "mounted"
    /\ scrollCount = 1
    /\ rafPending = 0
    /\ rows = <<"AAA", "BBB">>
    /\ query = <<"a">>
    /\ filteredSorted = <<"AAA">>
    /\ sortKey = "Shares"

\* C7: one fetch is issued, at mount, and none after; while it is pending the
\* rows are empty; once it has settled on a mounted instance the rows are the
\* array it resolved to, and are empty with nothing thrown if it rejected or
\* resolved to a non-array.
C7_FetchLifecycle ==
    /\ fetchCount <= 1
    /\ (alive = "constructed") <=> (fetchState = "idle")
    /\ (fetchState = "idle") <=> (fetchCount = 0)
    /\ fetchState \in {"idle", "pending"} => (rows = <<>> /\ response = NoResponse)
    /\ fetchState = "settled" =>
          IF response.kind = "array"
          THEN \/ rows = response.data
               \/ alive = "unmounted" /\ rows = <<>>
          ELSE rows = <<>> /\ filteredSorted = <<>> /\ alive # "crashed"

\* the endpoint answered with an object rather than an array
C7_Witness ==
    /\ alive = "mounted"
    /\ fetchState = "settled"
    /\ response.kind = "nonarray"
    /\ rows = <<>>
    /\ fetchCount = 1

\* C8: whatever array the endpoint returns and whatever the query and sort
\* spec, deriving the visible rows and the totals never throws.
C8_NeverThrows == alive # "crashed"

\* C9: a step that edits the query or the sort spec leaves `rows` as it was;
\* on an instance that took the fetch result, `rows` is that result, element by
\* element; the array that gets sorted is never the rows array.
C9_RowsUntouched ==
    [][/\ (query' # query \/ sortKey' # sortKey \/ sortDir' # sortDir) => rows' = rows
       /\ ~sortedInPlace'
       /\ (fetchState' = "settled" /\ alive' \in {"mounted", "crashed"}) =>
            rows' = (IF response'.kind = "array" THEN response'.data ELSE <<>>)]_vars

\* a sort click reordered the visible rows and not the fetched ones
C9_Witness ==
    /\ alive = "mounted"
    /\ lastOp.op = "toggleSort"
    /\ response = [kind |-> "array", data |-> <<"BBB", "AAA">>]
    /\ rows = <<"BBB", "AAA">>
    /\ filteredSorted = <<"AAA", "BBB">>

====
